---- MODULE Spec2Model ----
(***************************************************************************)
(* A model of src/eda_script.py: main(input, out_dir) reads a CSV into a   *)
(* DataFrame, normalises the 'Churn' label, renames columns, builds five   *)
(* figures and one summary table, checks the figures with test_figs and    *)
(* saves six .png files at f"{out_dir}<name>".                             *)
(*                                                                         *)
(* Strings that matter as paths are sequences of chunks: a chunk is either *)
(* the separator "/" or a piece of text without a separator, so that the   *)
(* f-string concatenation and the file system's reading of the result are  *)
(* two different things.  A DataFrame is a sequence of columns, a column a *)
(* name and a sequence of cells, a cell a pair <<kind, text>>.             *)
(***************************************************************************)
EXTENDS Integers, Sequences, FiniteSets, TLC

VARIABLES
    input,              \* what pd.read_csv(input) finds: [ok, df]
    out_dir,            \* the --out_dir string, as chunks
    noneFigs,           \* the figures for which the plotting library returns None
    dirs,               \* file system: the directories that exist (normalised)
    files,              \* file system: normalised path -> content
    console,            \* what this process has printed
    pc,                 \* the statement main is at
    err,                \* the uncaught exception that ended the process, or "none"
    run,                \* how many times the script has been started
    train_df,           \* main's train_df
    figs,               \* main's five figure objects: "unset" | "Chart" | "None"
    catfeatures_stats,  \* main's catfeatures_stats: a sequence of rows
    nvalid,             \* how many test_figs calls have returned
    written,            \* the paths this process has saved, in order
    steps,              \* the statements this process has completed, in order
    mkdirTried,         \* whether this process called os.makedirs
    firstFiles,         \* the files as the first process left them
    firstOk             \* whether the first process printed the completion message

vars == <<input, out_dir, noneFigs, dirs, files, console, pc, err, run, train_df,
          figs, catfeatures_stats, nvalid, written, steps, mkdirTried,
          firstFiles, firstOk>>

\* ------------------------------------------------------------------ bounds
MaxDirLen == 2      \* chunks in out_dir
MaxRuns == 2        \* times the script is started on the same arguments
MaxRows == 2        \* rows of the input
MaxCols == 2        \* columns of the input beside 'Churn'

\* ------------------------------------------------------------------ paths
SEP == "/"
DirChunks == {"a", SEP}

RECURSIVE Collapse(_)
\* Runs of separators read as one separator.
Collapse(p) ==
    IF Len(p) < 2 THEN p
    ELSE IF p[1] = SEP /\ p[2] = SEP THEN Collapse(Tail(p))
    ELSE <<p[1]>> \o Collapse(Tail(p))

\* The file system's reading of a path string: separators collapsed, a
\* trailing separator dropped (the root stays <<SEP>>, the empty path is the
\* working directory).
Norm(p) ==
    LET c == Collapse(p)
    IN  IF Len(c) > 1 /\ c[Len(c)] = SEP THEN SubSeq(c, 1, Len(c) - 1) ELSE c

\* Position of the last separator of p, 0 when there is none.
LastSep(p) ==
    LET S == {i \in 1..Len(p) : p[i] = SEP}
    IN  IF S = {} THEN 0 ELSE CHOOSE i \in S : \A j \in S : j <= i

\* The directory a file path lies in, and the file's name in it.
DirOf(p) == Norm(SubSeq(p, 1, LastSep(p)))
BaseOf(p) == SubSeq(p, LastSep(p) + 1, Len(p))

\* The directories os.makedirs(p) leaves in existence: p and its ancestors.
PrefixDirs(p) ==
    {Norm(SubSeq(p, 1, i)) :
        i \in {j \in 1..Len(p) : j = Len(p) \/ p[j + 1] = SEP}}

\* The working directory and the root always exist.
DirExists(ds, d) == d \in ds \cup {<<>>, <<SEP>>}

\* os.path.exists(p)
PathExists(ds, fs, p) == DirExists(ds, Norm(p)) \/ Norm(p) \in DOMAIN fs

\* ------------------------------------------------------------- artifacts
\* Mutants of ArtifactNames: one name typed twice; two names out of order.
ArtifactNamesRepeated ==
    <<"table_1_cat_unique_values.png",
      "figure_1_class_imbalance.png",
      "figure_2_numeric_feat_dist.png",
      "figure_3_numeric_feat_corr.png",
      "figure_4_cat_feat_churn_dist.png",
      "figure_4_cat_feat_churn_dist.png">>

ArtifactNamesSwapped ==
    <<"table_1_cat_unique_values.png",
      "figure_2_numeric_feat_dist.png",
      "figure_1_class_imbalance.png",
      "figure_3_numeric_feat_corr.png",
      "figure_4_cat_feat_churn_dist.png",
      "figure_5_cat_feat_2dhist.png">>

\* The fixed file names of lines 139-144, in the order they are saved, and the
\* object each one is saved from.
ArtifactNames ==
    <<"table_1_cat_unique_values.png",
      "figure_1_class_imbalance.png",
      "figure_2_numeric_feat_dist.png",
      "figure_3_numeric_feat_corr.png",
      "figure_4_cat_feat_churn_dist.png",
      "figure_5_cat_feat_2dhist.png">>

SavedObjects ==
    <<"catfeatures_stats",
      "target_class_imbalance",
      "numeric_feat_dist",
      "numeric_feat_corr",
      "cat_feat_churn_dist",
      "cat_feat_2dhist">>

\* Mutant of OutPath: the file name carries the number of the run.
OutPathStamped(dir, k) ==
    dir \o <<IF run = 1 THEN "first" ELSE "later", ArtifactNames[k]>>

\* f"{out_dir}<name>": the two strings joined, nothing put between them.
OutPath(dir, k) == dir \o <<ArtifactNames[k]>>

\* The figures in the order lines 131-135 hand them to test_figs.
ValidateOrder ==
    <<"target_class_imbalance",
      "numeric_feat_corr",
      "cat_feat_churn_dist",
      "cat_feat_2dhist",
      "numeric_feat_dist">>

FigNames == {ValidateOrder[i] : i \in 1..Len(ValidateOrder)}

\* Mutant of test_figs: the assertion compiled away.
test_figsOff(fig) == TRUE

\* assert fig != None
test_figs(fig) == fig # "None"

\* The statements of main, in program order.
Program ==
    <<"makedirs", "read_csv", "normalize", "rename",
      "target_class_imbalance", "numeric_feat_dist", "numeric_feat_corr",
      "catfeatures_stats", "cat_feat_churn_dist", "cat_feat_2dhist",
      "test_figs", "save", "print">>

\* The statement after statement l ("done" after the last).
After(l) ==
    LET i == CHOOSE j \in 1..Len(Program) : Program[j] = l
    IN  IF i = Len(Program) THEN "done" ELSE Program[i + 1]

\* ------------------------------------------------------------ DataFrame
True_ == <<"bool", "True">>
False_ == <<"bool", "False">>
NaN == <<"null", "">>
Str(s) == <<"str", s>>
Num(s) == <<"num", s>>

Col(n, cs) == [name |-> n, cells |-> cs]

HasColumn(df, n) == \E i \in 1..Len(df) : df[i].name = n

\* Series.replace(to_replace, value): every cell equal to to_replace becomes
\* value, every other cell stays.
Replace(cells, to_replace, value) ==
    [i \in 1..Len(cells) |-> IF cells[i] = to_replace THEN value ELSE cells[i]]

\* Mutant of NormalizeLabel: line 43 left out.
NormalizeLabelTrueOnly(df) ==
    [i \in 1..Len(df) |->
        IF df[i].name = "Churn"
        THEN Col("Churn", Replace(df[i].cells, True_, Str("True")))
        ELSE df[i]]

\* Lines 42-43, for a frame that has the column: the column keeps its place.
NormalizeLabel(df) ==
    [i \in 1..Len(df) |->
        IF df[i].name = "Churn"
        THEN Col("Churn",
                 Replace(Replace(df[i].cells, True_, Str("True")),
                         False_, Str("False")))
        ELSE df[i]]

\* The columns= mapping of lines 45-59.
RenameMap ==
    {<<"tenure", "Tenure">>,
     <<"SeniorCitizen", "Senior Citizen">>,
     <<"MonthlyCharges", "Monthly Charges">>,
     <<"TotalCharges", "Total Charges">>,
     <<"InternetService", "Internet Service">>,
     <<"MultipleLines", "Multiple Lines">>,
     <<"OnlineSecurity", "Online Security">>,
     <<"OnlineBackup", "Online Backup">>,
     <<"DeviceProtection", "Device Protection">>,
     <<"StreamingMovies", "Streaming Movies">>,
     <<"StreamingTV", "Streaming TV">>,
     <<"PhoneService", "Phone Service">>,
     <<"TechSupport", "Tech Support">>,
     <<"PaperlessBilling", "Paperless Billing">>,
     <<"PaymentMethod", "Payment Method">>}

\* Mutant of RenameLabel: one entry of the mapping carries its neighbour's
\* display name.
RenameLabelSlip(n) ==
    IF n = "StreamingTV" THEN "Streaming Movies"
    ELSE IF \E m \in RenameMap : m[1] = n
    THEN (CHOOSE m \in RenameMap : m[1] = n)[2]
    ELSE n

\* DataFrame.rename on one label: the mapped name, or the label itself.
RenameLabel(n) ==
    IF \E m \in RenameMap : m[1] = n
    THEN (CHOOSE m \in RenameMap : m[1] = n)[2]
    ELSE n

\* train_df.rename(columns=...)
Rename(df) == [i \in 1..Len(df) |-> Col(RenameLabel(df[i].name), df[i].cells)]

\* The dtype pandas gives a column: numbers and nulls make a numeric column,
\* booleans alone a bool column, anything else (and no rows at all) object.
Kinds(cells) == {cells[i][1] : i \in 1..Len(cells)}
Dtype(cells) ==
    IF Len(cells) = 0 THEN "object"
    ELSE IF Kinds(cells) \subseteq {"num", "null"} THEN "number"
    ELSE IF Kinds(cells) = {"bool"} THEN "bool"
    ELSE "object"

RECURSIVE SelectObject(_)
\* train_df.select_dtypes(include='object'): the object columns, in order.
SelectObject(df) ==
    IF df = <<>> THEN <<>>
    ELSE (IF Dtype(Head(df).cells) = "object" THEN <<Head(df)>> ELSE <<>>)
         \o SelectObject(Tail(df))

RECURSIVE Unique(_)
\* Series.unique(): the distinct cells in order of first appearance, NaN too.
Unique(cells) ==
    IF cells = <<>> THEN <<>>
    ELSE LET u == Unique(SubSeq(cells, 1, Len(cells) - 1))
             c == cells[Len(cells)]
         IN  IF \E i \in 1..Len(u) : u[i] = c THEN u ELSE Append(u, c)

\* Mutant of NUnique: len(unique()), which counts NaN as a value.
NUniqueWithNaN(cells) == Cardinality({cells[i] : i \in 1..Len(cells)})

\* Series.nunique(): the number of distinct cells, NaN left out.
NUnique(cells) == Cardinality({cells[i] : i \in 1..Len(cells)} \ {NaN})

\* Series.isnull().sum()
NullCount(cells) == Cardinality({i \in 1..Len(cells) : cells[i] = NaN})

\* The row lines 98-101 put in tmp for column c.
CatRow(c) ==
    [Feature |-> c.name,
     UniqueValues |-> Unique(c.cells),
     Categories |-> NUnique(c.cells),
     MissingValues |-> NullCount(c.cells)]

\* train_cat[c] is a Series only when one column carries the label c; with
\* two it is a DataFrame, which has no unique().
Ambiguous(cat) ==
    \E i, j \in 1..Len(cat) : i # j /\ cat[i].name = cat[j].name

RECURSIVE CatStats(_, _)
\* The loop of lines 97-102: one appended row per column of train_cat.
CatStats(cat, acc) ==
    IF cat = <<>> THEN acc
    ELSE CatStats(Tail(cat), Append(acc, CatRow(Head(cat))))

\* What a saved image shows: the object it was rendered from and the data
\* behind that object.
Render(obj, df, stats) ==
    [obj |-> obj,
     data |-> IF obj = "catfeatures_stats" THEN <<>> ELSE df,
     table |-> IF obj = "catfeatures_stats" THEN stats ELSE <<>>]

\* Writing a file: the path now holds the content, whatever it held before.
WriteFile(fs, p, c) ==
    [q \in DOMAIN fs \cup {p} |-> IF q = p THEN c ELSE fs[q]]

Msg(t, a) == [text |-> t, arg |-> a]
MkdirMessage == Msg("Wasn't able to create output directory. Check permissions.", <<>>)
DoneMessage(dir) == Msg("EDA reports successfully stored in: ", dir)

\* Mutants of OnException: no handler at all; a handler around the saves too.
OnExceptionNoHandler(l) == "failed"
OnExceptionSwallow(l) == IF l \in {"makedirs", "save"} THEN After(l) ELSE "failed"

\* The statement control reaches when statement l raises: the bare except of
\* lines 35-36 is the only handler, everything else ends the process.
OnException(l) == IF l = "makedirs" THEN After(l) ELSE "failed"

\* --------------------------------------------------------------- inputs
\* A column as read_csv delivers it never mixes strings, booleans and
\* numbers: a mixed CSV column is read as strings throughout.
CsvColumn(cells) == Cardinality(Kinds(cells) \ {"null"}) <= 1

CellSeqs(S, n) == {cs \in [1..n -> S] : CsvColumn(cs)}

\* Sequences of at most n distinct names from S.
NameSeqs(S, n) ==
    UNION {{ns \in [1..k -> S] : \A i, j \in 1..k : i # j => ns[i] # ns[j]} :
              k \in 0..n}

\* df with column c put in before position k + 1.
InsertCol(df, k, c) == SubSeq(df, 1, k) \o <<c>> \o SubSeq(df, k + 1, Len(df))

ChurnCells == {True_, False_, Str("True"), Str("False"), Str("Yes"), NaN}

\* Inputs for the label step: a 'Churn' column of every readable content.
LabelInputs ==
    {<<Col("Churn", cs)>> :
        cs \in UNION {CellSeqs(ChurnCells, n) : n \in 0..MaxRows}}

OtherNames ==
    {m[1] : m \in RenameMap} \cup {"Partner", "Tenure"}

\* Inputs for the rename step: every choice and order of column names, with
\* 'Churn' at every position.
RenameInputs ==
    UNION {{InsertCol([i \in 1..Len(ns) |-> Col(ns[i], <<Str("Yes")>>)], k,
                      Col("Churn", <<True_>>)) : k \in 0..Len(ns)} :
              ns \in NameSeqs(OtherNames, MaxCols)}

CatNames == {"Partner", "tenure"}
CatCells == {Str("x"), Str("y"), Num("1"), NaN}

\* Inputs for the summary table: string and numeric columns with repeated
\* and missing cells, and a 'Churn' column that is boolean or all missing.
CatInputs ==
    UNION {
      UNION {
        {[i \in 1..Len(ns) + 1 |->
             IF i <= Len(ns) THEN Col(ns[i], cs[i])
             ELSE Col("Churn", [r \in 1..n |-> ch])] :
           cs \in [1..Len(ns) -> CellSeqs(CatCells, n)], ch \in {True_, NaN}} :
        ns \in NameSeqs(CatNames, MaxCols)} :
      n \in 0..MaxRows}

DataInputs == LabelInputs \cup RenameInputs \cup CatInputs

\* Inputs for whole runs: a CSV without 'Churn', a well-formed one, and one
\* whose columns collide after renaming.
RunDatasets ==
    {<<Col("tenure", <<Num("1")>>)>>,
     <<Col("tenure", <<Num("1")>>), Col("Partner", <<Str("Yes")>>),
       Col("Churn", <<True_>>)>>,
     <<Col("tenure", <<Str("x")>>), Col("Tenure", <<Str("y")>>),
       Col("Churn", <<False_>>)>>}

Malformed == [ok |-> FALSE, df |-> <<>>]
Parsed(d) == [ok |-> TRUE, df |-> d]

OutDirs == UNION {[1..n -> DirChunks] : n \in 1..MaxDirLen}

NoFigs == [f \in FigNames |-> "unset"]

\* ----------------------------------------------------------------- Init
\* A fresh process: nothing read, nothing built, nothing printed.
Fresh ==
    /\ pc = "makedirs"
    /\ err = "none"
    /\ console = <<>>
    /\ train_df = <<>>
    /\ figs = NoFigs
    /\ catfeatures_stats = <<>>
    /\ nvalid = 0
    /\ written = <<>>
    /\ steps = <<>>
    /\ mkdirTried = FALSE

Init ==
    /\ input \in {Malformed} \cup {Parsed(d) : d \in RunDatasets}
    /\ out_dir \in OutDirs
    /\ noneFigs \in SUBSET FigNames
    /\ dirs \in {{}, PrefixDirs(out_dir)}
    /\ files = <<>>
    /\ run = 1
    /\ firstFiles = <<>>
    /\ firstOk = FALSE
    /\ Fresh

InitData ==
    /\ input \in {Parsed(d) : d \in DataInputs}
    /\ out_dir = <<"a", SEP>>
    /\ noneFigs = {}
    /\ dirs = {<<"a">>}
    /\ files = <<>>
    /\ run = 1
    /\ firstFiles = <<>>
    /\ firstOk = FALSE
    /\ Fresh

\* -------------------------------------------------------------- actions
args == <<input, out_dir, noneFigs>>
hist == <<run, firstFiles, firstOk>>

\* Lines 31-36.
EnsureDir ==
    /\ pc = "makedirs"
    /\ IF PathExists(dirs, files, out_dir)
       THEN /\ pc' = After(pc)
            /\ UNCHANGED <<dirs, console, mkdirTried, err>>
       ELSE \E ok \in BOOLEAN :
            /\ mkdirTried' = TRUE
            /\ IF ok
               THEN /\ dirs' = dirs \cup PrefixDirs(out_dir)
                    /\ pc' = After(pc)
                    /\ UNCHANGED <<console, err>>
               ELSE /\ console' = Append(console, MkdirMessage)
                    /\ pc' = OnException(pc)
                    /\ err' = IF OnException(pc) = "failed" THEN "OSError" ELSE err
                    /\ UNCHANGED dirs
    /\ steps' = Append(steps, pc)
    /\ UNCHANGED <<args, hist, files, train_df, figs, catfeatures_stats, nvalid, written>>

\* Line 39.
ReadCsv ==
    /\ pc = "read_csv"
    /\ IF input.ok
       THEN /\ train_df' = input.df
            /\ pc' = After(pc)
            /\ steps' = Append(steps, pc)
            /\ UNCHANGED err
       ELSE /\ pc' = OnException(pc)
            /\ err' = "ParserError"
            /\ UNCHANGED <<train_df, steps>>
    /\ UNCHANGED <<args, hist, dirs, files, console, figs, catfeatures_stats, nvalid,
                   written, mkdirTried>>

\* Lines 42-43.
Normalize ==
    /\ pc = "normalize"
    /\ IF HasColumn(train_df, "Churn")
       THEN /\ train_df' = NormalizeLabel(train_df)
            /\ pc' = After(pc)
            /\ steps' = Append(steps, pc)
            /\ UNCHANGED err
       ELSE /\ pc' = OnException(pc)
            /\ err' = "KeyError"
            /\ UNCHANGED <<train_df, steps>>
    /\ UNCHANGED <<args, hist, dirs, files, console, figs, catfeatures_stats, nvalid,
                   written, mkdirTried>>

\* Lines 45-59.
RenameColumns ==
    /\ pc = "rename"
    /\ train_df' = Rename(train_df)
    /\ pc' = After(pc)
    /\ steps' = Append(steps, pc)
    /\ UNCHANGED <<args, hist, dirs, files, console, err, figs, catfeatures_stats,
                   nvalid, written, mkdirTried>>

\* Lines 62-75, 78-86, 88-91, 104-113, 115-127: one figure object is built.
BuildFigure ==
    /\ pc \in FigNames
    /\ figs' = [figs EXCEPT ![pc] = IF pc \in noneFigs THEN "None" ELSE "Chart"]
    /\ pc' = After(pc)
    /\ steps' = Append(steps, pc)
    /\ UNCHANGED <<args, hist, dirs, files, console, err, train_df, catfeatures_stats,
                   nvalid, written, mkdirTried>>

\* Lines 94-102.
CatFeaturesStats ==
    /\ pc = "catfeatures_stats"
    /\ LET train_cat == SelectObject(train_df)
       IN  IF Ambiguous(train_cat)
           THEN /\ pc' = OnException(pc)
                /\ err' = "AttributeError"
                /\ UNCHANGED <<catfeatures_stats, steps>>
           ELSE /\ catfeatures_stats' = CatStats(train_cat, <<>>)
                /\ pc' = After(pc)
                /\ steps' = Append(steps, pc)
                /\ UNCHANGED err
    /\ UNCHANGED <<args, hist, dirs, files, console, train_df, figs, nvalid, written,
                   mkdirTried>>

\* Lines 131-135: one call of test_figs.
TestFigs ==
    /\ pc = "test_figs"
    /\ IF test_figs(figs[ValidateOrder[nvalid + 1]])
       THEN /\ nvalid' = nvalid + 1
            /\ pc' = IF nvalid + 1 = Len(ValidateOrder) THEN After(pc) ELSE pc
            /\ steps' = Append(steps, pc)
            /\ UNCHANGED err
       ELSE /\ pc' = OnException(pc)
            /\ err' = "AssertionError"
            /\ UNCHANGED <<nvalid, steps>>
    /\ UNCHANGED <<args, hist, dirs, files, console, train_df, figs, catfeatures_stats,
                   written, mkdirTried>>

\* Lines 139-144: one file is saved, or the save raises (the directory of the
\* path is missing, the path is not writable, the renderer fails).
Save ==
    /\ pc = "save"
    /\ LET k == Len(written) + 1
           p == OutPath(out_dir, k)
       IN  \E ok \in BOOLEAN :
           IF ok /\ DirExists(dirs, DirOf(p))
           THEN /\ files' = WriteFile(files, Norm(p),
                                      Render(SavedObjects[k], train_df, catfeatures_stats))
                /\ written' = Append(written, p)
                /\ pc' = IF k = Len(ArtifactNames) THEN After(pc) ELSE pc
                /\ steps' = Append(steps, pc)
                /\ UNCHANGED err
           ELSE /\ pc' = OnException(pc)
                /\ err' = IF OnException(pc) = "failed" THEN "OSError" ELSE err
                /\ UNCHANGED <<files, written, steps>>
    /\ UNCHANGED <<args, hist, dirs, console, train_df, figs, catfeatures_stats, nvalid,
                   mkdirTried>>

\* Line 146.
PrintDone ==
    /\ pc = "print"
    /\ console' = Append(console, DoneMessage(out_dir))
    /\ pc' = After(pc)
    /\ steps' = Append(steps, pc)
    /\ UNCHANGED <<args, hist, dirs, files, err, train_df, figs, catfeatures_stats,
                   nvalid, written, mkdirTried>>

\* Lines 154-156: the script is started again on the same arguments; the file
\* system is what the process before left.
Rerun ==
    /\ pc \in {"done", "failed"}
    /\ run < MaxRuns
    /\ run' = run + 1
    /\ firstFiles' = IF run = 1 THEN files ELSE firstFiles
    /\ firstOk' = IF run = 1 THEN pc = "done" ELSE firstOk
    /\ pc' = "makedirs"
    /\ err' = "none"
    /\ console' = <<>>
    /\ train_df' = <<>>
    /\ figs' = NoFigs
    /\ catfeatures_stats' = <<>>
    /\ nvalid' = 0
    /\ written' = <<>>
    /\ steps' = <<>>
    /\ mkdirTried' = FALSE
    /\ UNCHANGED <<args, dirs, files>>

Next ==
    \/ EnsureDir
    \/ ReadCsv
    \/ Normalize
    \/ RenameColumns
    \/ BuildFigure
    \/ CatFeaturesStats
    \/ TestFigs
    \/ Save
    \/ PrintDone
    \/ Rerun

Spec == Init /\ [][Next]_vars

\* The data steps alone, on wide inputs: the run up to the first test_figs.
NextData ==
    \/ EnsureDir
    \/ ReadCsv
    \/ Normalize
    \/ RenameColumns
    \/ BuildFigure
    \/ CatFeaturesStats

SpecData == InitData /\ [][NextData]_vars

\* --------------------------------------------------------------- claims
\* The artifact names as section 6 of the specification lists them.
FixedNames ==
    <<"table_1_cat_unique_values.png",
      "figure_1_class_imbalance.png",
      "figure_2_numeric_feat_dist.png",
      "figure_3_numeric_feat_corr.png",
      "figure_4_cat_feat_churn_dist.png",
      "figure_5_cat_feat_2dhist.png">>

Range(q) == {q[i] : i \in 1..Len(q)}
Completed(l) == l \in Range(steps)
IsPrefix(a, b) == Len(a) <= Len(b) /\ \A i \in 1..Len(a) : a[i] = b[i]

\* C1, as stated: a run that completes has written exactly the fixed artifact
\* names, and they are seven.
C1_SevenFiles ==
    pc = "done" =>
        /\ {BaseOf(written[i]) : i \in 1..Len(written)} = {<<n>> : n \in Range(FixedNames)}
        /\ Cardinality(Range(written)) = 7

\* C1, amended: a run that completes has written exactly six files, one per
\* fixed artifact name, each at the path that is out_dir directly followed by
\* the name, and each of them is in the file system.
C1_SixFiles ==
    pc = "done" =>
        /\ Range(written) = {out_dir \o <<n>> : n \in Range(FixedNames)}
        /\ Cardinality(Range(written)) = 6
        /\ \A w \in Range(written) : Norm(w) \in DOMAIN files

C1_Witness == pc = "done" /\ run = 1 /\ Len(written) = 6 /\ input.ok

\* The 'Churn' cells of a frame.
ChurnOf(df) == (CHOOSE c \in Range(df) : c.name = "Churn").cells

\* C2, as stated: once the label step is done every 'Churn' cell is the
\* string "True" or the string "False", whatever the input held.
C2_OnlyTrueFalse ==
    Completed("normalize") =>
        \A c \in Range(ChurnOf(train_df)) : c \in {<<"str", "True">>, <<"str", "False">>}

\* C2, amended: once the label step is done no 'Churn' cell is a boolean: a
\* boolean cell has become the string of its value and every other cell (a
\* null, any other string) is what the input held, so that the column holds
\* only "True" and "False" exactly when the input held only booleans and
\* those two strings.
C2_NoBooleans ==
    Completed("normalize") =>
        LET old == ChurnOf(input.df)
            new == ChurnOf(train_df)
        IN  /\ Len(new) = Len(old)
            /\ \A r \in 1..Len(old) :
                 /\ new[r][1] # "bool"
                 /\ old[r] = <<"bool", "True">> => new[r] = <<"str", "True">>
                 /\ old[r] = <<"bool", "False">> => new[r] = <<"str", "False">>
                 /\ old[r][1] # "bool" => new[r] = old[r]

C2_Witness ==
    /\ Completed("normalize")
    /\ \E r \in 1..Len(ChurnOf(input.df)) : ChurnOf(input.df)[r] = <<"bool", "False">>
    /\ \E r \in 1..Len(ChurnOf(input.df)) : ChurnOf(input.df)[r] = <<"null", "">>

\* The display name the specification's mapping gives a source name.
DisplayName(n) ==
    CASE n = "tenure" -> "Tenure"
      [] n = "SeniorCitizen" -> "Senior Citizen"
      [] n = "MonthlyCharges" -> "Monthly Charges"
      [] n = "TotalCharges" -> "Total Charges"
      [] n = "InternetService" -> "Internet Service"
      [] n = "MultipleLines" -> "Multiple Lines"
      [] n = "OnlineSecurity" -> "Online Security"
      [] n = "OnlineBackup" -> "Online Backup"
      [] n = "DeviceProtection" -> "Device Protection"
      [] n = "StreamingMovies" -> "Streaming Movies"
      [] n = "StreamingTV" -> "Streaming TV"
      [] n = "PhoneService" -> "Phone Service"
      [] n = "TechSupport" -> "Tech Support"
      [] n = "PaperlessBilling" -> "Paperless Billing"
      [] n = "PaymentMethod" -> "Payment Method"
      [] OTHER -> n

\* C3: once the rename step is done the frame has as many columns as the
\* input, in the same order; a column whose name is one of the 15 source
\* names carries its display name and every other column its old name.
C3_Rename ==
    Completed("rename") =>
        /\ Len(train_df) = Len(input.df)
        /\ \A i \in 1..Len(input.df) : train_df[i].name = DisplayName(input.df[i].name)

C3_Witness ==
    /\ Completed("rename")
    /\ \E i, j \in 1..Len(input.df) :
         /\ i < j
         /\ input.df[i].name = "Partner" /\ train_df[i].name = "Partner"
         /\ input.df[j].name = "StreamingTV" /\ train_df[j].name = "Streaming TV"

\* A column pandas does not count as numeric: one with a string in it, one
\* mixing booleans and nulls, or one without rows.
NonNumeric(cells) ==
    \/ cells = <<>>
    \/ \E r \in 1..Len(cells) : cells[r][1] = "str"
    \/ /\ \E r \in 1..Len(cells) : cells[r][1] = "bool"
       /\ \E r \in 1..Len(cells) : cells[r][1] = "null"

\* The positions of the non-numeric columns of df, in order.
NonNumericAt(df) == {i \in 1..Len(df) : NonNumeric(df[i].cells)}
Nth(S, k) == CHOOSE i \in S : Cardinality({j \in S : j < i}) = k - 1

\* C4: once the summary table is built it has exactly one row per non-numeric
\* column of the frame, in column order, and each row's count of distinct
\* non-null values and count of missing values are those of that column of
\* the input.
C4_CatTable ==
    Completed("catfeatures_stats") =>
        LET S == NonNumericAt(train_df)
        IN  /\ Len(catfeatures_stats) = Cardinality(S)
            /\ \A k \in 1..Cardinality(S) :
                 LET i == Nth(S, k)
                     cells == input.df[i].cells
                     row == catfeatures_stats[k]
                 IN  /\ row.Feature = train_df[i].name
                     /\ row.Categories =
                            Cardinality({cells[r] : r \in 1..Len(cells)} \ {<<"null", "">>})
                     /\ row.MissingValues =
                            Cardinality({r \in 1..Len(cells) : cells[r] = <<"null", "">>})

C4_Witness ==
    /\ Completed("catfeatures_stats")
    /\ Len(catfeatures_stats) >= 2
    /\ \E k \in 1..Len(catfeatures_stats) :
         catfeatures_stats[k].MissingValues = 1 /\ catfeatures_stats[k].Categories = 1
    /\ \E k \in 1..Len(catfeatures_stats) : catfeatures_stats[k].Categories = 2

\* C5: when the script is started again on the same arguments after a run
\* that completed, the files are at every moment those the first run left:
\* the same paths, each with the same content.
C5_Idempotent == (run >= 2 /\ firstOk) => files = firstFiles

C5_Witness == run = 2 /\ firstOk /\ pc = "done" /\ Len(written) = 6

\* C6, as stated: every file a run saves is a direct child of the directory
\* out_dir and is named by its fixed artifact name.
C6_DirectChild ==
    \A i \in 1..Len(written) :
        /\ DirOf(written[i]) = Norm(out_dir)
        /\ BaseOf(written[i]) = <<FixedNames[i]>>

\* C7: the step that ensures out_dir always hands over to the load step.  If
\* out_dir exists nothing is created and nothing is printed; if it does not
\* and the creation fails the message is printed and the run goes on.
C7_BestEffortDir ==
    [][pc = "makedirs" =>
         /\ pc' = "read_csv"
         /\ err' = "none"
         /\ PathExists(dirs, files, out_dir) =>
                ~mkdirTried' /\ console' = console /\ dirs' = dirs
         /\ ~PathExists(dirs, files, out_dir) =>
                /\ mkdirTried'
                /\ \/ DirExists(dirs', Norm(out_dir)) /\ console' = console
                   \/ /\ dirs' = dirs
                      /\ console' =
                           Append(console,
                                  [text |-> "Wasn't able to create output directory. Check permissions.",
                                   arg |-> <<>>])]_vars

C7_Witness ==
    /\ mkdirTried
    /\ ~DirExists(dirs, Norm(out_dir))
    /\ Len(console) >= 1
    /\ Completed("rename")
    /\ Len(written) >= 1

StepKind(l) ==
    CASE l = "read_csv" -> "load"
      [] l = "rename" -> "rename"
      [] l \in {"target_class_imbalance", "numeric_feat_dist", "numeric_feat_corr",
                "cat_feat_churn_dist", "cat_feat_2dhist"} -> "compute"
      [] l = "test_figs" -> "validate"
      [] l = "save" -> "persist"
      [] l = "print" -> "print"
      [] OTHER -> "other"

RECURSIVE Kinds9(_)
Kinds9(q) ==
    IF q = <<>> THEN <<>>
    ELSE (IF StepKind(Head(q)) = "other" THEN <<>> ELSE <<StepKind(Head(q))>>)
         \o Kinds9(Tail(q))

StrictOrder ==
    <<"load", "rename",
      "compute", "compute", "compute", "compute", "compute",
      "validate", "validate", "validate", "validate", "validate",
      "persist", "persist", "persist", "persist", "persist", "persist",
      "print">>

\* C9: the steps a process has completed are, in this order, load, rename,
\* five computations, five validations, the saves, the print; a file is
\* saved only after all five validations have passed, so a process with a
\* None figure, which fails a validation, has saved nothing.
C9_StrictOrder ==
    /\ IsPrefix(Kinds9(steps), StrictOrder)
    /\ written # <<>> => nvalid = 5
    /\ (\E f \in DOMAIN figs : figs[f] = "None") => written = <<>>
    /\ err = "AssertionError" => written = <<>>
    /\ run = 1 => DOMAIN files = {Norm(w) : w \in Range(written)}

C9_Witness == err = "AssertionError" /\ nvalid >= 1 /\ written = <<>> /\ run = 1

\* C10: the files a process has saved are the first files of the fixed order,
\* each still in the file system; a process whose save failed has saved no
\* later file, and the completion message is printed only after all six.
C10_PrefixWrites ==
    /\ Len(written) <= 6
    /\ \A i \in 1..Len(written) :
         /\ written[i] = out_dir \o <<FixedNames[i]>>
         /\ Norm(written[i]) \in DOMAIN files
    /\ run = 1 => Cardinality(DOMAIN files) = Len(written)
    /\ (\E m \in Range(console) : m.text = "EDA reports successfully stored in: ")
          => Len(written) = 6

C10_Witness == pc = "failed" /\ err = "OSError" /\ Len(written) = 3 /\ run = 1 /\ ~mkdirTried

====
